---------------------------- MODULE Spec2Model ----------------------------
(***************************************************************************)
(* A model of vtkplotter's ActorBase mixin (vtkplotter/base.py) and of the *)
(* Volume object (vtkplotter/volume.py).                                   *)
(*                                                                         *)
(* The Volume object is the record `vol`; the engine objects it owns (the  *)
(* mapper, the image data, the volume property with its transfer           *)
(* functions) are nested records.  Every method is an operator from the    *)
(* object before the call to [obj, ret, printed]: the object after the     *)
(* call, what the call returned (or the exception it raised) and whether   *)
(* it printed a diagnostic.  The actions apply the methods.                *)
(***************************************************************************)
EXTENDS Integers, Sequences, FiniteSets, TLC

VARIABLES
    vol,        \* the Volume object: its Python fields and engine state
    actor,      \* the ActorBase fields and the engine's prop state
    position,   \* the engine's position of the object (GetPosition)
    pdata,      \* the input data object's arrays and its mapper's scalar state
    env,        \* module settings the methods read
    hist,       \* the argument of the latest setter call, per cached field
    last        \* the latest call: method, arguments, outcome

vars == <<vol, actor, position, pdata, env, hist, last>>

---------------------------------------------------------------------------
(* Bounds of the model.                                                    *)

MaxSeq == 3         \* longest control-point sequence passed to color/alpha
MaxCoord == 1       \* positions have coordinates in -MaxCoord..MaxCoord

---------------------------------------------------------------------------
(* Python values.                                                          *)

None == [t |-> "None"]
PyInt(n) == [t |-> "int", v |-> n]
PyFloat(n) == [t |-> "float", v |-> n]
PyStr(s) == [t |-> "str", v |-> s]
PySeq(s) == [t |-> "seq", v |-> s]
PyBool(b) == [t |-> "bool", v |-> b]

\* utils.isSequence as the methods use it: lists, tuples and arrays, not str
isSequence(x) == x.t = "seq"

\* Python truthiness (the tests `if txt:`, `if style:`, `if newMapper:`)
Truthy(x) ==
    CASE x.t = "None" -> FALSE
      [] x.t = "bool" -> x.v
      [] x.t = "int" -> x.v # 0
      [] x.t = "float" -> x.v # 0
      [] x.t = "str" -> x.v # ""
      [] x.t = "seq" -> Len(x.v) > 0
      [] OTHER -> TRUE

\* Outcomes of a call
Self == "self"
Raises == {"RuntimeError", "AttributeError", "ZeroDivisionError", "TypeError"}

---------------------------------------------------------------------------
(* Exact rationals n/d, d > 0, in lowest terms: the model's real numbers.  *)

Abs(n) == IF n < 0 THEN -n ELSE n

RECURSIVE Gcd(_, _)
Gcd(a, b) == IF b = 0 THEN a ELSE Gcd(b, a % b)

Reduce(n, d, g) == IF g = 0 THEN [n |-> 0, d |-> 1] ELSE [n |-> n \div g, d |-> d \div g]

Rat(n, d) == Reduce(n, d, Gcd(Abs(n), d))

RatInt(n) == [n |-> n, d |-> 1]

\* F applied to the value of e, e being evaluated once
Bind(e, F(_)) == CHOOSE r \in {F(x) : x \in {e}} : TRUE

---------------------------------------------------------------------------
(* The engine's data objects, as far as the methods read and write them.   *)

Unset == [t |-> "unset"]            \* an attribute that was never assigned
NoMapper == [id |-> -1, kind |-> "None"]      \* ActorBase.__init__: self._mapper = None
NoImage == [t |-> "noimage"]        \* a mapper or filter without input data

RECURSIVE SeqMin(_)
SeqMin(s) ==
    IF Len(s) = 1 THEN s[1]
    ELSE LET m == SeqMin(Tail(s)) IN IF s[1] < m THEN s[1] ELSE m

RECURSIVE SeqMax(_)
SeqMax(s) ==
    IF Len(s) = 1 THEN s[1]
    ELSE LET m == SeqMax(Tail(s)) IN IF s[1] > m THEN s[1] ELSE m

\* an image: dims voxels per axis, scalars in x-fastest (Fortran) order
Image(id, type, dims, spacing, origin, scalars) ==
    [t |-> "image", id |-> id, type |-> type, dims |-> dims,
     spacing |-> spacing, origin |-> origin, scalars |-> scalars]

EmptyImage(id) == Image(id, "vtkImageData", <<0, 0, 0>>, <<1, 1, 1>>, <<0, 0, 0>>, <<>>)

\* img.GetScalarRange(): the engine answers (0, 1) for data without scalars
GetScalarRange(img) ==
    IF img.scalars = <<>> THEN <<0, 1>>
    ELSE <<SeqMin(img.scalars), SeqMax(img.scalars)>>

GetNumberOfPoints(img) == img.dims[1] * img.dims[2] * img.dims[3]

\* a mapper of the given engine class, as constructed
NewMapper(id, kind) ==
    [id |-> id, kind |-> kind, input |-> NoImage, blend |-> 0, jitter |-> FALSE,
     modified |-> FALSE]

\* hasattr(self._mapper, 'SetUseJittering'): the GPU ray-cast mappers
HasJittering(m) == m.kind \in {"vtkGPUVolumeRayCastMapper", "vtkOpenGLGPUVolumeRayCastMapper"}

\* the property self.GetProperty() returns, as the engine constructs it;
\* numbers with a fractional part are kept as rationals
NewProperty(kind) ==
    [kind |-> kind, hasGetColor |-> (kind = "vtkProperty"),
     shade |-> FALSE, lighting |-> TRUE,
     ambient |-> Rat(1, 10), diffuse |-> Rat(7, 10), specular |-> Rat(2, 10),
     specularPower |-> RatInt(10), specularColor |-> <<"rgb", "engine default">>,
     color |-> <<>>, scalarOpacity |-> <<>>, gradientOpacity |-> <<>>,
     disableGradientOpacity |-> FALSE, interpolation |-> "nearest"]

\* the Volume object as vtk.vtkVolume.__init__ and ActorBase.__init__ leave it
NewVolume ==
    [built |-> "new", _mapper |-> NoMapper, _imagedata |-> Unset,
     _mode |-> Unset, _color |-> Unset, _alpha |-> Unset, _alphaGrad |-> Unset,
     engineMapper |-> NoMapper.id, prop |-> NewProperty("vtkVolumeProperty")]

\* results of a call: the object after it, what it returned or raised, the
\* value a getter returned, whether it printed, and the call it made on the
\* engine's prop, if any
Ret(o, r) == [obj |-> o, ret |-> r, val |-> None, printed |-> FALSE, engine |-> None]
Val(o, v) == [obj |-> o, ret |-> "value", val |-> v, printed |-> FALSE, engine |-> None]
Err(o, e) == [obj |-> o, ret |-> e, val |-> None, printed |-> FALSE, engine |-> None]
Printed(r) == [r EXCEPT !.printed = TRUE]
Engine(r, call) == [r EXCEPT !.engine = call]

---------------------------------------------------------------------------
(* ActorBase.lighting and Volume.jittering, Volume.mode.                   *)

DefaultSpecular == <<"rgb", "(1,1,0.99)">>

\* the preset table of lighting(): [ambient, diffuse, specular, power, colour]
LightingStyles == {"metallic", "plastic", "shiny", "glossy", "ambient", "default"}

LightingPars(style, c) ==
    CASE style = "metallic" -> <<Rat(1, 10), Rat(3, 10), RatInt(1), RatInt(10), c>>
      [] style = "plastic"  -> <<Rat(3, 10), Rat(4, 10), Rat(3, 10), RatInt(5), c>>
      [] style = "shiny"    -> <<Rat(2, 10), Rat(6, 10), Rat(8, 10), RatInt(50), c>>
      [] style = "glossy"   -> <<Rat(1, 10), Rat(7, 10), Rat(9, 10), RatInt(90), DefaultSpecular>>
      [] style = "ambient"  -> <<RatInt(1), RatInt(0), RatInt(0), RatInt(0), <<"rgb", "(1,1,1)">> >>
      [] style = "default"  -> <<Rat(1, 10), RatInt(1), Rat(5, 100), RatInt(5), c>>

\* the optional arguments of lighting(), None when not given
NoLight == [ambient |-> None, diffuse |-> None, specular |-> None,
            specularPower |-> None, specularColor |-> None, enabled |-> TRUE]

\* colors.getColor(c): the RGB triple the colour value c denotes
getColor(c) == <<"rgb", c>>

\* the preset of a style written into the property pr (lines 439-443)
SetStyle(pr, pars) ==
    [pr EXCEPT !.ambient = pars[1], !.diffuse = pars[2], !.specular = pars[3],
               !.specularPower = pars[4],
               !.specularColor = IF pr.hasGetColor THEN pars[5] ELSE @]

\* the explicit constants written into the property pr (lines 445-450)
SetLight(pr, a) ==
    [pr EXCEPT !.ambient = IF a.ambient # None THEN a.ambient.v ELSE @,
               !.diffuse = IF a.diffuse # None THEN a.diffuse.v ELSE @,
               !.specular = IF a.specular # None THEN a.specular.v ELSE @,
               !.specularPower = IF a.specularPower # None THEN a.specularPower.v ELSE @,
               !.specularColor = IF a.specularColor # None
                                 THEN getColor(a.specularColor) ELSE @,
               !.lighting = IF ~a.enabled /\ pr.kind = "vtkProperty" THEN FALSE ELSE @]

\* the colour c the presets reflect (lines 422-428)
StyleColor(pr) ==
    IF pr.hasGetColor /\ ~pdata.mapper.scalarVisibility
    THEN <<"rgb", "pr.GetColor()">> ELSE DefaultSpecular

\* pr.LightingOff() is a method of vtkProperty; a vtkVolumeProperty has no
\* lighting switch, and the call raises once the constants have been set
LightingOff(r, a) ==
    IF ~a.enabled /\ r.obj.prop.kind # "vtkProperty"
    THEN Err(r.obj, "AttributeError") ELSE r

lighting(o, style, a) ==
    IF ~Truthy(style)
    THEN LightingOff(Ret([o EXCEPT !.prop = SetLight(@, a)], Self), a)
    ELSE IF style.t # "str" \/ style.v \notin LightingStyles
    THEN Printed(Err(o, "RuntimeError"))
    ELSE LightingOff(Ret([o EXCEPT !.prop =
                 SetLight(SetStyle(@, LightingPars(style.v, StyleColor(@))), a)], Self), a)

jittering(o, status) ==
    IF HasJittering(o._mapper)
    THEN IF status = None
         THEN Val(o, PyBool(o._mapper.jitter))
         ELSE Ret([o EXCEPT !._mapper.jitter = Truthy(status)], Self)
    ELSE Ret(o, "None")

\* mode(m) that remembers m and leaves the mapper's blend mode alone
mode_keeps_blend(o, m) ==
    IF o._mapper = NoMapper
    THEN Err(o, "AttributeError")
    ELSE IF m = None
    THEN Val(o, PyInt(o._mapper.blend))
    ELSE Ret([o EXCEPT !._mode = m], Self)

mode(o, m) ==
    IF o._mapper = NoMapper
    THEN Err(o, "AttributeError")    \* None has no GetBlendMode / SetBlendMode
    ELSE IF m = None
    THEN Val(o, PyInt(o._mapper.blend))
    ELSE IF m.v = 0
    THEN Ret(jittering(lighting([o EXCEPT !._mapper.blend = m.v, !._mode = m,
                                          !.prop.shade = TRUE],
                                PyStr("shiny"), NoLight).obj,
                       PyBool(TRUE)).obj, Self)
    ELSE IF m.v = 1
    THEN Ret(jittering([o EXCEPT !._mapper.blend = m.v, !._mode = m,
                                 !.prop.shade = FALSE], PyBool(TRUE)).obj, Self)
    ELSE Ret([o EXCEPT !._mapper.blend = m.v, !._mode = m], Self)

---------------------------------------------------------------------------
(* The transfer functions: Volume.color, Volume.alpha, Volume.alphaGradient *)
(* A transfer function is the sequence of the control points handed to the *)
(* engine (AddRGBPoint / AddPoint), in the order of the calls.             *)

\* names colors.getColor knows (colors.colors, colors.color_nicks)
ColorNames == {"b", "lb", "lg", "y", "r"}

CmapPoints == 64    \* np.linspace(smin, smax, num=64, endpoint=True)
GradMin == 0        \* alphaGradient: smin, smax = 0, 255
GradMax == 255

\* the control points spread over n intervals instead of n - 1
xalpha_over_n(smin, smax, i, n) == Rat(smin * n + (smax - smin) * i, n)

\* smin + (smax - smin) * i / (n - 1), i counted from 0, in true division
xalpha(smin, smax, i, n) == Rat(smin * (n - 1) + (smax - smin) * i, n - 1)

\* colors.colorMap(x, name, vmin, vmax) at the k-th sample
colorMap(k, name) == <<"cmap", name, k>>

color(o, col) ==
    IF o._imagedata = Unset
    THEN Err(o, "AttributeError")
    ELSE LET rng == GetScalarRange(o._imagedata)
             smin == rng[1]
             smax == rng[2]
             o1 == [o EXCEPT !._color = col]
             install(ctf) ==
                 [o1 EXCEPT !.prop.color = ctf, !.prop.interpolation = "linear"]
             constant == << [x |-> RatInt(smin), v |-> getColor(col.v)],
                            [x |-> RatInt(smax), v |-> getColor(col.v)] >>
         IN  IF isSequence(col)
             THEN IF Len(col.v) = 1
                  THEN Err(o1, "ZeroDivisionError")
                  ELSE Ret(install([i \in 1..Len(col.v) |->
                              [x |-> xalpha(smin, smax, i - 1, Len(col.v)),
                               v |-> getColor(col.v[i])]]), Self)
             ELSE IF col.t = "str"
             THEN IF col.v \in ColorNames
                  THEN Ret(install(constant), Self)
                  ELSE IF env.mapscales
                  THEN Ret(install([k \in 1..CmapPoints |->
                              [x |-> xalpha(smin, smax, k - 1, CmapPoints),
                               v |-> colorMap(k - 1, col.v)]]), Self)
                  ELSE Ret(install(<<>>), Self)
             ELSE IF col.t \in {"int", "bool"}
             THEN Ret(install(constant), Self)
             ELSE Printed(Ret(install(<<>>), Self))

alpha(o, al) ==
    IF o._imagedata = Unset
    THEN Err(o, "AttributeError")
    ELSE LET rng == GetScalarRange(o._imagedata)
             smin == rng[1]
             smax == rng[2]
             o1 == [o EXCEPT !._alpha = al]
             install(otf) ==
                 [o1 EXCEPT !.prop.scalarOpacity = otf, !.prop.interpolation = "linear"]
         IN  IF isSequence(al)
             THEN IF Len(al.v) = 1
                  THEN Err(o1, "ZeroDivisionError")
                  ELSE Ret(install([i \in 1..Len(al.v) |->
                              [x |-> xalpha(smin, smax, i - 1, Len(al.v)),
                               v |-> al.v[i]]]), Self)
             ELSE Ret(install(<< [x |-> RatInt(smin), v |-> al],
                                 [x |-> RatInt(smax), v |-> al] >>), Self)

alphaGradient(o, alphaGrad) ==
    LET o1 == [o EXCEPT !._alphaGrad = alphaGrad]
        smin == GradMin
        smax == GradMax
        install(gotf) ==
            [o1 EXCEPT !.prop.disableGradientOpacity = FALSE,
                       !.prop.gradientOpacity = gotf,
                       !.prop.interpolation = "linear"]
    IN  IF alphaGrad = None
        THEN Ret([o1 EXCEPT !.prop.disableGradientOpacity = TRUE], Self)
        ELSE IF isSequence(alphaGrad)
        THEN IF Len(alphaGrad.v) = 1
             THEN Err([o1 EXCEPT !.prop.disableGradientOpacity = FALSE],
                      "ZeroDivisionError")
             ELSE Ret(install([i \in 1..Len(alphaGrad.v) |->
                         [x |-> xalpha(smin, smax, i - 1, Len(alphaGrad.v)),
                          v |-> alphaGrad.v[i]]]), Self)
        ELSE Ret(install(<< [x |-> RatInt(smin), v |-> alphaGrad],
                            [x |-> RatInt(smax), v |-> alphaGrad] >>), Self)

---------------------------------------------------------------------------
(* Volume.__init__ and Volume._update.                                     *)

\* Python's `sub in s` on strings, the strings being sequences of characters
Contains(sub, s) ==
    \E i \in 1..(Len(s) - Len(sub) + 1) : SubSeq(s, i, i + Len(sub) - 1) = sub

S_gpu == <<"g", "p", "u">>
S_opengl_gpu == <<"o", "p", "e", "n", "g", "l", "_", "g", "p", "u">>
S_smart == <<"s", "m", "a", "r", "t">>
S_fixed == <<"f", "i", "x", "e", "d">>
S_tetra == <<"t", "e", "t", "r", "a">>
S_unstr == <<"u", "n", "s", "t", "r">>

\* the if/elif chain choosing the mapper class; "None" when no branch is taken
MapperKind(mapperType) ==
    IF Contains(S_gpu, mapperType) THEN "vtkGPUVolumeRayCastMapper"
    ELSE IF Contains(S_opengl_gpu, mapperType) THEN "vtkOpenGLGPUVolumeRayCastMapper"
    ELSE IF Contains(S_smart, mapperType) THEN "vtkSmartVolumeMapper"
    ELSE IF Contains(S_fixed, mapperType) THEN "vtkFixedPointVolumeRayCastMapper"
    ELSE IF Contains(S_tetra, mapperType) THEN "vtkProjectedTetrahedraMapper"
    ELSE IF Contains(S_unstr, mapperType) THEN "vtkUnstructuredGridVolumeRayCastMapper"
    ELSE "None"

\* the input kinds __init__ tells apart
RecognisedInputs == {"None", "sequence", "ImageData", "UniformGrid",
                     "UnstructuredGrid", "GetOutput"}

\* the image the constructor reads out of inputobj (lines 67-104)
InputImage(inputobj, shape) ==
    CASE inputobj.kind = "None" -> EmptyImage(0)
      [] inputobj.kind = "sequence" ->
            Image(0, "vtkImageData",
                  IF shape # None THEN shape.v ELSE inputobj.shape,
                  <<1, 1, 1>>, <<0, 0, 0>>, inputobj.ravel)
      [] OTHER -> inputobj.img

\* an _update that leaves the mapper with the image it had
_update_keeps_input(o, img) ==
    Ret([o EXCEPT !._imagedata = img, !._mapper.modified = TRUE], Self)

_update(o, img) ==
    Ret([o EXCEPT !._imagedata = img, !._mapper.input = img,
                  !._mapper.modified = TRUE], Self)

\* one link of the chain mode(mode).color(c).alpha(alpha)...: the method
\* next(_) called on what the previous link r returned
Chain(r, next(_)) ==
    IF r.ret \in Raises THEN r
    ELSE IF r.ret # Self
    THEN [Err(r.obj, "AttributeError") EXCEPT !.printed = r.printed]
    ELSE Bind(next(r.obj), LAMBDA ok : [ok EXCEPT !.printed = r.printed \/ ok.printed])

\* lines 109-137, for the image img the input was read as
Volume__build(a, kind, img) ==
    LET o1 == [NewVolume EXCEPT !.built = "ok", !._imagedata = img,
                                !._mapper = [NewMapper(0, kind) EXCEPT !.input = img],
                                !.engineMapper = 0]
    IN  Bind(mode(o1, a.mode), LAMBDA r1 :
        Bind(Chain(r1, LAMBDA o : color(o, a.c)), LAMBDA r2 :
        Bind(Chain(r2, LAMBDA o : alpha(o, a.alpha)), LAMBDA r3 :
        Bind(Chain(r3, LAMBDA o : alphaGradient(o, a.alphaGradient)), LAMBDA r4 :
            IF r4.ret # Self
            THEN [r4 EXCEPT !.obj = NewVolume]   \* the constructor raised: no object
            ELSE [r4 EXCEPT !.ret = "None",
                            !.obj = [r4.obj EXCEPT !._mode = a.mode, !._color = a.c,
                                                   !._alpha = a.alpha,
                                                   !._alphaGrad = a.alphaGradient]]))))

Volume__init__(a) ==
    LET mapperType == IF a.inputobj.kind = "UnstructuredGrid" THEN S_tetra
                      ELSE a.mapperType
        kind == MapperKind(mapperType)
        img == [InputImage(a.inputobj, a.shape) EXCEPT
                   !.origin = IF a.origin # None THEN a.origin.v ELSE @,
                   !.spacing = IF a.spacing # None THEN a.spacing.v ELSE @,
                   !.dims = IF a.shape # None THEN a.shape.v ELSE @]
    IN  IF a.inputobj.kind \notin RecognisedInputs
        THEN Printed(Ret([NewVolume EXCEPT !.built = "broken"], "None"))
        ELSE IF kind = "None"
        THEN Err(NewVolume, "AttributeError")      \* self._mapper is still None
        ELSE Bind(img, LAMBDA i : Volume__build(a, kind, i))

---------------------------------------------------------------------------
(* The other parts of the state, as ActorBase.__init__ and the engine      *)
(* leave them.                                                             *)

NewActor ==
    [filename |-> <<>>, name |-> "", trail |-> None, shadow |-> None,
     top |-> None, base |-> None, info |-> {},
     _time |-> PyInt(0), _legend |-> None, flagText |-> None,
     pickable |-> TRUE, scale |-> <<1, 1, 1>>, visibility |-> TRUE,
     userTransform |-> None, userMatrix |-> None]

\* the names given to arrays
ArrayNames == {"a", "b"}

\* a data object with np points and nc cells and no arrays, and its mapper
NewData(np, nc) ==
    [npoints |-> np, ncells |-> nc,
     pointArrays |-> [n \in ArrayNames |-> None],
     cellArrays |-> [n \in ArrayNames |-> None],
     pointScalars |-> None, pointVectors |-> None,
     cellScalars |-> None, cellVectors |-> None,
     mapper |-> [arrayName |-> None, scalarRange |-> <<0, 1>>,
                 scalarMode |-> "default", scalarVisibility |-> FALSE]]

NoCall == [op |-> "none", arg |-> None, ret |-> "None", val |-> None,
           printed |-> FALSE, setter |-> FALSE, engine |-> None, before |-> None]

\* the record of a call: the method, its argument, and the result r
Call(op, arg, setter, r) ==
    [op |-> op, arg |-> arg, ret |-> r.ret, val |-> r.val,
     printed |-> r.printed, setter |-> setter, engine |-> r.engine, before |-> None]

NoHist == [mode |-> Unset, color |-> Unset, alpha |-> Unset, alphaGrad |-> Unset]

---------------------------------------------------------------------------
(* Inputs.                                                                 *)

\* control values: MaxSeq distinct colours and opacities, in a fixed order
ColorAt(i) == PyStr(CASE i = 1 -> "b" [] i = 2 -> "y" [] OTHER -> "r")
AlphaAt(i) == PyFloat(Rat(i - 1, MaxSeq))

ColorSeqs == {PySeq([i \in 1..n |-> ColorAt(i)]) : n \in 0..MaxSeq}
AlphaSeqs == {PySeq([i \in 1..n |-> AlphaAt(i)]) : n \in 0..MaxSeq}

ColorArgs == ColorSeqs \cup {PyStr("r"), PyStr("jet"), PyInt(1), PyFloat(Rat(1, 2))}
AlphaArgs == AlphaSeqs \cup {PyFloat(Rat(1, 2))}
GradArgs == {None, PyFloat(RatInt(1))} \cup {a \in AlphaSeqs : Len(a.v) \in {1, MaxSeq}}
ModeArgs == {None} \cup {PyInt(m) : m \in 0..4}

TheImage == Image(0, "vtkImageData", <<3, 2, 1>>, <<1, 1, 1>>, <<0, 0, 0>>,
                  <<2, 8, 5, 2, 6, 8>>)

InputObjs ==
    { [kind |-> "None"],
      [kind |-> "sequence", shape |-> <<2, 2, 1>>, ravel |-> <<0, 1, 2, 4>>],
      [kind |-> "sequence", shape |-> <<2, 1, 1>>, ravel |-> <<3, 3>>],
      [kind |-> "ImageData", img |-> TheImage],
      [kind |-> "UniformGrid", img |-> [TheImage EXCEPT !.type = "vtkUniformGrid"]],
      [kind |-> "UnstructuredGrid",
       img |-> [TheImage EXCEPT !.type = "vtkUnstructuredGrid"]],
      [kind |-> "GetOutput", img |-> TheImage],
      [kind |-> "other"] }

MapperTypes == {S_gpu, S_opengl_gpu, S_smart, S_fixed, S_tetra, S_unstr,
                <<"r", "a", "y">>}

\* the defaults of Volume.__init__'s signature
DefaultArgs ==
    [inputobj |-> [kind |-> "None"],
     c |-> PySeq(<<PyStr("b"), PyStr("lb"), PyStr("lg"), PyStr("y"), PyStr("r")>>),
     alpha |-> PySeq(<<PyFloat(RatInt(0)), PyFloat(RatInt(0)), PyFloat(Rat(2, 10)),
                       PyFloat(Rat(4, 10)), PyFloat(Rat(8, 10)), PyInt(1)>>),
     alphaGradient |-> None, mode |-> PyInt(0),
     origin |-> None, spacing |-> None, shape |-> None, mapperType |-> S_gpu]

\* constructor calls: every input with the default arguments, every
\* mapperType on an image and on an unstructured grid, and the other
\* arguments varied one at a time
CtorArgs ==
    {[DefaultArgs EXCEPT !.inputobj = i] : i \in InputObjs}
    \cup {[DefaultArgs EXCEPT !.inputobj = i, !.mapperType = mt] :
        i \in {j \in InputObjs : j.kind \in {"ImageData", "UnstructuredGrid"}},
        mt \in MapperTypes}
    \cup {[DefaultArgs EXCEPT !.mode = m] : m \in {None, PyInt(1)}}
    \cup {[DefaultArgs EXCEPT !.c = PySeq(<<PyStr("r")>>)],
          [DefaultArgs EXCEPT !.alphaGradient = PyFloat(RatInt(1))],
          [DefaultArgs EXCEPT !.origin = PySeq(<<1, 1, 1>>),
                              !.spacing = PySeq(<<2, 2, 2>>)],
          [DefaultArgs EXCEPT !.inputobj = CHOOSE j \in InputObjs : j.kind = "ImageData",
                              !.shape = PySeq(<<1, 2, 1>>)]}

---------------------------------------------------------------------------
(* Specification Spec: the life of a Volume, from its constructor on, and  *)
(* the methods that set its rendering style and transfer functions.        *)

Init ==
    /\ vol = NewVolume
    /\ actor = NewActor
    /\ position = <<0, 0, 0>>
    /\ pdata = NewData(0, 0)
    /\ env \in [mapscales : BOOLEAN, autoResetScalarRange : {TRUE},
                hasGetSpacing : {FALSE}]
    /\ hist = NoHist
    /\ last = NoCall

\* vol = Volume(inputobj, c, alpha, alphaGradient, mode, ...)
Construct ==
    /\ vol.built = "new"
    /\ \E a \in CtorArgs :
         \E r \in {Volume__init__(a)} :
             /\ vol' = r.obj
             /\ last' = Call("Volume", a, FALSE, r)
             /\ hist' = IF r.ret \in Raises THEN hist
                        ELSE [mode |-> a.mode, color |-> a.c, alpha |-> a.alpha,
                              alphaGrad |-> a.alphaGradient]
    /\ UNCHANGED <<actor, position, pdata, env>>

\* vol.mode(m), vol.mode()
Mode ==
    /\ vol.built # "new"
    /\ \E m \in ModeArgs :
         \E r \in {mode(vol, m)} :
             /\ vol' = r.obj
             /\ last' = Call("mode", m, m # None, r)
             /\ hist' = IF m # None THEN [hist EXCEPT !.mode = m] ELSE hist
    /\ UNCHANGED <<actor, position, pdata, env>>

\* vol.jittering(status), vol.jittering()
Jittering ==
    /\ vol.built # "new"
    /\ \E st \in {None, PyBool(TRUE), PyBool(FALSE)} :
         \E r \in {jittering(vol, st)} :
             /\ vol' = r.obj
             /\ last' = Call("jittering", st, st # None, r)
    /\ UNCHANGED <<actor, position, pdata, env, hist>>

\* vol.alphaGradient(g)
AlphaGradient ==
    /\ vol.built # "new"
    /\ \E g \in GradArgs :
         \E r \in {alphaGradient(vol, g)} :
             /\ vol' = r.obj
             /\ last' = Call("alphaGradient", g, TRUE, r)
             /\ hist' = [hist EXCEPT !.alphaGrad = g]
    /\ UNCHANGED <<actor, position, pdata, env>>

Next == Construct \/ Mode \/ Jittering \/ AlphaGradient

Spec == Init /\ [][Next]_vars

---------------------------------------------------------------------------
(* Specification SpecTF: the colour and opacity transfer functions of a    *)
(* Volume built with the constructor's default arguments.                  *)

InitTF ==
    /\ \E i \in {j \in InputObjs : j.kind \in RecognisedInputs} :
         \E a \in {[DefaultArgs EXCEPT !.inputobj = i]} : \E r \in {Volume__init__(a)} :
             /\ vol = r.obj
             /\ last = Call("Volume", a, FALSE, r)
             /\ hist = [mode |-> a.mode, color |-> a.c, alpha |-> a.alpha,
                        alphaGrad |-> a.alphaGradient]
    /\ actor = NewActor
    /\ position = <<0, 0, 0>>
    /\ pdata = NewData(0, 0)
    /\ env \in [mapscales : BOOLEAN, autoResetScalarRange : {TRUE},
                hasGetSpacing : {FALSE}]

\* vol.color(col)
Color ==
    /\ vol.built # "new"
    /\ \E col \in ColorArgs :
         \E r \in {color(vol, col)} :
             /\ vol' = r.obj
             /\ last' = Call("color", col, TRUE, r)
             /\ hist' = [hist EXCEPT !.color = col]
    /\ UNCHANGED <<actor, position, pdata, env>>

\* vol.alpha(al)
Alpha ==
    /\ vol.built # "new"
    /\ \E al \in AlphaArgs :
         \E r \in {alpha(vol, al)} :
             /\ vol' = r.obj
             /\ last' = Call("alpha", al, TRUE, r)
             /\ hist' = [hist EXCEPT !.alpha = al]
    /\ UNCHANGED <<actor, position, pdata, env>>

NextTF == Color \/ Alpha

SpecTF == InitTF /\ [][NextTF]_vars

---------------------------------------------------------------------------
(* The image pipeline of a Volume: spacing, resample, threshold, mirror.   *)

\* the id of a new engine object: one no object the Volume refers to has
FreshId(o) ==
    CHOOSE i \in 0..2 :
        /\ i # o._imagedata.id
        /\ o._mapper.input # NoImage => i # o._mapper.input.id

\* img.SetSpacing(s) on the image object `id`, seen through the reference img
SetSpacing(img, id, s) ==
    IF img # NoImage /\ img.id = id THEN [img EXCEPT !.spacing = s] ELSE img

\* spacing() answers whatever the image holds
spacing_forgets(o, s) ==
    IF o._imagedata = Unset THEN Err(o, "AttributeError")
    ELSE IF s # None THEN Ret([o EXCEPT !._mapper.modified = TRUE], Self)
    ELSE Val(o, PySeq(o._imagedata.spacing))

spacing(o, s) ==
    IF o._imagedata = Unset
    THEN Err(o, "AttributeError")
    ELSE IF s # None
    THEN Ret([o EXCEPT !._imagedata.spacing = s.v,
                       !._mapper.input = SetSpacing(@, o._imagedata.id, s.v),
                       !._mapper.modified = TRUE], Self)
    ELSE Val(o, PySeq(o._imagedata.spacing))

\* resample: the filter rsp is never given an input (no rsp.SetInputData),
\* so rsp.GetOutput() is an empty image; self.GetSpacing() is a method of
\* the engine's prop, which raises when the prop has none
resample(o, newSpacing, interpolation) ==
    IF ~env.hasGetSpacing \/ o._imagedata = Unset \/ o._mapper = NoMapper
    THEN Err(o, "AttributeError")
    ELSE _update(o, EmptyImage(FreshId(o)))

\* vtkImageThreshold: the voxels inside the thresholds take replaceWith
InThreshold(v, vmin, vmax) ==
    IF vmin # None /\ vmax # None THEN vmin.v <= v /\ v <= vmax.v
    ELSE IF vmin # None THEN v <= vmin.v
    ELSE IF vmax # None THEN v >= vmax.v
    ELSE TRUE

threshold(o, vmin, vmax, replaceWith) ==
    IF o._imagedata = Unset \/ o._mapper = NoMapper
    THEN Err(o, "AttributeError")
    ELSE _update(o, [o._imagedata EXCEPT
                        !.id = FreshId(o),
                        !.scalars = [i \in DOMAIN @ |->
                            IF InThreshold(@[i], vmin, vmax) THEN replaceWith ELSE @[i]]])

\* vtkImageFlip: position i of the x-fastest array after a flip along axis
FlipIndex(i, dims, axis) ==
    LET x == (i - 1) % dims[1]
        y == ((i - 1) \div dims[1]) % dims[2]
        z == (i - 1) \div (dims[1] * dims[2])
    IN  CASE axis = 0 -> 1 + (dims[1] - 1 - x) + dims[1] * (y + dims[2] * z)
          [] axis = 1 -> 1 + x + dims[1] * ((dims[2] - 1 - y) + dims[2] * z)
          [] axis = 2 -> 1 + x + dims[1] * (y + dims[2] * (dims[3] - 1 - z))

Flip(img, id, axis) ==
    [img EXCEPT !.id = id,
                !.scalars = [i \in DOMAIN @ |-> @[FlipIndex(i, img.dims, axis)]]]

\* axis.lower()
Lower(axis) ==
    CASE axis = "X" -> "x" [] axis = "Y" -> "y" [] axis = "Z" -> "z"
      [] axis = "N" -> "n" [] OTHER -> axis

mirror(o, axis) ==
    IF o._imagedata = Unset
    THEN Err(o, "AttributeError")
    ELSE IF Lower(axis) \notin {"x", "y", "z"}
    THEN Printed(Err(o, "RuntimeError"))
    ELSE _update(o, Flip(o._imagedata, FreshId(o),
                         CASE Lower(axis) = "x" -> 0 [] Lower(axis) = "y" -> 1
                           [] Lower(axis) = "z" -> 2))

SpacingArgs == {None, PySeq(<<1, 1, 1>>), PySeq(<<2, 2, 2>>), PySeq(<<1, 2, 3>>)}

---------------------------------------------------------------------------
(* Specification SpecPipe: a Volume built from image data and the methods  *)
(* that read, change or replace its image data.                            *)

InitPipe ==
    /\ \E i \in {j \in InputObjs : j.kind \in {"None", "sequence", "ImageData"}} :
         \E a \in {[DefaultArgs EXCEPT !.inputobj = i]} : \E r \in {Volume__init__(a)} :
             /\ vol = r.obj
             /\ last = Call("Volume", a, FALSE, r)
             /\ hist = [mode |-> a.mode, color |-> a.c, alpha |-> a.alpha,
                        alphaGrad |-> a.alphaGradient]
    /\ actor = NewActor
    /\ position = <<0, 0, 0>>
    /\ pdata = NewData(0, 0)
    /\ env \in [mapscales : {TRUE}, autoResetScalarRange : {TRUE},
                hasGetSpacing : BOOLEAN]

\* vol.spacing(s), vol.spacing()
Spacing ==
    /\ \E s \in SpacingArgs : \E r \in {spacing(vol, s)} :
         /\ vol' = r.obj
         /\ last' = Call("spacing", s, s # None, r)
    /\ UNCHANGED <<actor, position, pdata, env, hist>>

\* vol.resample(newSpacing)
Resample ==
    /\ \E s \in SpacingArgs \ {None} : \E r \in {resample(vol, s, 1)} :
         /\ vol' = r.obj
         /\ last' = Call("resample", s, TRUE, r)
    /\ UNCHANGED <<actor, position, pdata, env, hist>>

\* vol.threshold(vmin, vmax, replaceWith)
Threshold ==
    /\ \E vmin \in {None, PyInt(3)}, vmax \in {None, PyInt(5)} :
         \E r \in {threshold(vol, vmin, vmax, 0)} :
             /\ vol' = r.obj
             /\ last' = Call("threshold", <<vmin, vmax, 0>>, TRUE, r)
    /\ UNCHANGED <<actor, position, pdata, env, hist>>

\* vol.mirror(axis)
Mirror ==
    /\ \E axis \in {"x", "Y", "z", "n", "w"} : \E r \in {mirror(vol, axis)} :
         /\ vol' = r.obj
         /\ last' = Call("mirror", axis, TRUE, r)
    /\ UNCHANGED <<actor, position, pdata, env, hist>>

NextPipe == Spacing \/ Resample \/ Threshold \/ Mirror

SpecPipe == InitPipe /\ [][NextPipe]_vars

---------------------------------------------------------------------------
(* ActorBase: the set/get methods on the object's own fields and on the    *)
(* engine's prop.  A is the record `actor`.                                *)

pickable(A, value) ==
    IF value = None THEN Val(A, PyBool(A.pickable))
    ELSE Ret([A EXCEPT !.pickable = Truthy(value)], Self)

legend(A, txt) ==
    IF Truthy(txt) THEN Ret([A EXCEPT !._legend = txt], Self)
    ELSE Val(A, A._legend)

\* a file name is the sequence of its '/'-separated parts, "" being <<>>;
\* filename.split('/')[-1] is the last of them
flag(A, text) ==
    Ret([A EXCEPT !.flagText =
            IF text # None THEN text
            ELSE IF A.filename # <<>> THEN PyStr(A.filename[Len(A.filename)])
            ELSE IF A.name # "" THEN PyStr(A.name)
            ELSE PyStr("")], Self)

time(A, t) ==
    IF t = None THEN Val(A, A._time)
    ELSE Ret([A EXCEPT !._time = t], Self)

\* SetScale(s): one factor for the three axes, or one factor per axis
scale(A, sc) ==
    IF sc = None THEN Val(A, PySeq(A.scale))
    ELSE Ret([A EXCEPT !.scale = IF isSequence(sc) THEN sc.v ELSE <<sc.v, sc.v, sc.v>>],
             Self)

on(A) == Ret([A EXCEPT !.visibility = TRUE], Self)

off(A) == Ret([A EXCEPT !.visibility = FALSE], Self)

\* T is a vtkMatrix4x4, a transform, or an object SetUserTransform rejects
\* with a TypeError
setTransform(A, T) ==
    IF T.class = "vtkMatrix4x4" THEN Ret([A EXCEPT !.userMatrix = T], Self)
    ELSE IF T.class = "vtkTransform" THEN Ret([A EXCEPT !.userTransform = T], Self)
    ELSE Printed(Ret(A, Self))

Transforms == {[class |-> "vtkMatrix4x4", t |-> "obj"], [class |-> "vtkTransform", t |-> "obj"],
               [class |-> "str", t |-> "obj"]}

---------------------------------------------------------------------------
(* Specification SpecActor: the ActorBase set/get methods of a Volume      *)
(* built with the default arguments.                                       *)

InitActor ==
    /\ \E a \in {DefaultArgs} : \E r \in {Volume__init__(a)} :
             /\ vol = r.obj
             /\ last = Call("Volume", a, FALSE, r)
             /\ hist = [mode |-> a.mode, color |-> a.c, alpha |-> a.alpha,
                        alphaGrad |-> a.alphaGradient]
    /\ \E f \in {[fn |-> <<>>, nm |-> ""], [fn |-> <<>>, nm |-> "vol"],
                 [fn |-> <<"data", "embryo.tif">>, nm |-> "vol"]} :
         actor = [NewActor EXCEPT !.filename = f.fn, !.name = f.nm]
    /\ position = <<0, 0, 0>>
    /\ pdata = NewData(0, 0)
    /\ env \in [mapscales : {TRUE}, autoResetScalarRange : {TRUE},
                hasGetSpacing : {FALSE}]

\* the actions on `actor` leave the rest alone
ActorCall(op, arg, r) ==
    /\ actor' = r.obj
    /\ last' = Call(op, arg, arg # None, r)
    /\ UNCHANGED <<vol, position, pdata, env, hist>>

Pickable == \E v \in {None, PyBool(TRUE), PyBool(FALSE)} :
                \E r \in {pickable(actor, v)} : ActorCall("pickable", v, r)

Legend == \E txt \in {None, PyStr(""), PyStr("skull")} :
              \E r \in {legend(actor, txt)} : ActorCall("legend", txt, r)

Flag == \E text \in {None, PyStr("hello"), PyBool(FALSE)} :
            \E r \in {flag(actor, text)} : ActorCall("flag", text, r)

Time == \E t \in {None, PyInt(0), PyInt(7)} :
            \E r \in {time(actor, t)} : ActorCall("time", t, r)

Scale == \E sc \in {None, PyInt(2), PySeq(<<1, 2, 3>>)} :
             \E r \in {scale(actor, sc)} : ActorCall("scale", sc, r)

On == \E r \in {on(actor)} : ActorCall("on", PySeq(<<>>), r)

Off == \E r \in {off(actor)} : ActorCall("off", PySeq(<<>>), r)

SetTransform == \E T \in Transforms :
                    \E r \in {setTransform(actor, T)} : ActorCall("setTransform", T, r)

\* vol.lighting(style, ..., enabled)
Lighting ==
    /\ \E style \in {PyStr(""), PyStr("glossy"), PyStr("ambient"), PyStr("matte")},
          en \in BOOLEAN, amb \in {None, PyFloat(Rat(1, 2))} :
         \E a \in {[NoLight EXCEPT !.enabled = en, !.ambient = amb]} :
         \E r \in {lighting(vol, style, a)} :
             /\ vol' = r.obj
             /\ last' = Call("lighting", <<style, a>>, TRUE, r)
    /\ UNCHANGED <<actor, position, pdata, env, hist>>

NextActor == Pickable \/ Legend \/ Flag \/ Time \/ Scale \/ On \/ Off

SpecActor == InitActor /\ [][NextActor]_vars

\* Specification SpecLight: lighting and setTransform on an object whose
\* engine property is a vtkVolumeProperty (a Volume) or a vtkProperty (the
\* surface objects ActorBase is also the base of).
InitLight ==
    /\ \E a \in {DefaultArgs} : \E r \in {Volume__init__(a)} :
         \E k \in {"vtkVolumeProperty", "vtkProperty"} :
             /\ vol = [r.obj EXCEPT !.prop = IF k = @.kind THEN @ ELSE NewProperty(k)]
             /\ last = Call("Volume", a, FALSE, r)
             /\ hist = [mode |-> a.mode, color |-> a.c, alpha |-> a.alpha,
                        alphaGrad |-> a.alphaGradient]
    /\ actor = NewActor
    /\ position = <<0, 0, 0>>
    /\ pdata = NewData(0, 0)
    /\ env \in [mapscales : {TRUE}, autoResetScalarRange : {TRUE},
                hasGetSpacing : {FALSE}]

NextLight == SetTransform \/ Lighting

SpecLight == InitLight /\ [][NextLight]_vars

---------------------------------------------------------------------------
(* ActorBase: position and rotation.  P is the engine's position of the    *)
(* object.  No method of base.py or volume.py creates a trail or a shadow, *)
(* so self.trail and self.shadow stay None and their updates are skipped.  *)
(*                                                                         *)
(* Angles are kept exact: an angle in radians is a rational number of      *)
(* quarter turns (units of pi/2), an angle in degrees a rational.          *)

Add(u, v) == <<u[1] + v[1], u[2] + v[2], u[3] + v[3]>>
Sub(u, v) == <<u[1] - v[1], u[2] - v[2], u[3] - v[3]>>
Dot(u, v) == u[1] * v[1] + u[2] * v[2] + u[3] * v[3]
Cross(u, v) == <<u[2] * v[3] - u[3] * v[2], u[3] * v[1] - u[1] * v[3],
                 u[1] * v[2] - u[2] * v[1]>>
MatVec(R, v) == <<Dot(R[1], v), Dot(R[2], v), Dot(R[3], v)>>

\* utils.versor(v) = v / |v|, for a vector along a coordinate axis
versor(v) == [i \in 1..3 |-> v[i] \div (Abs(v[1]) + Abs(v[2]) + Abs(v[3]))]

\* np.deg2rad and the conversion `angle *= 180.0 / np.pi`
deg2rad(deg) == Rat(deg.n, deg.d * 90)
rad2deg(rad) == Rat(rad.n * 90, rad.d)

\* cosine and sine of a whole number q of quarter turns
CosQ(q) == CASE q % 4 = 0 -> 1 [] q % 4 = 2 -> -1 [] OTHER -> 0
SinQ(q) == CASE q % 4 = 1 -> 1 [] q % 4 = 3 -> -1 [] OTHER -> 0

\* the matrix R of rotate() from co = cos(anglerad), si = sin(anglerad) and
\* the unit axis k.  With a = cos(anglerad/2) and (b, c, d) = -k sin(anglerad/2)
\* the products are 2aa = 1 + co, 2bb = k1 k1 (1 - co), 2bc = k1 k2 (1 - co),
\* 2ad = -k3 si, and so on; x2 stands for 2x.
RotationMatrix(co, si, k) ==
    LET aa2 == 1 + co
        bb2 == k[1] * k[1] * (1 - co)
        cc2 == k[2] * k[2] * (1 - co)
        dd2 == k[3] * k[3] * (1 - co)
        bc2 == k[1] * k[2] * (1 - co)
        bd2 == k[1] * k[3] * (1 - co)
        cd2 == k[2] * k[3] * (1 - co)
        ab2 == -k[1] * si
        ac2 == -k[2] * si
        ad2 == -k[3] * si
    IN  << <<(aa2 + bb2 - cc2 - dd2) \div 2, bc2 + ad2, bd2 - ac2>>,
           <<bc2 - ad2, (aa2 + cc2 - bb2 - dd2) \div 2, cd2 + ab2>>,
           <<bd2 + ac2, cd2 - ab2, (aa2 + dd2 - bb2 - cc2) \div 2>> >>

\* pos(x, y) that keeps the z the object had
pos_keeps_z(P, x, y, z) ==
    IF x = None THEN Val(P, PySeq(P))
    ELSE IF z # None THEN Ret(<<x.v, y.v, z.v>>, Self)
    ELSE IF y # None THEN Ret(<<x.v, y.v, P[3]>>, Self)
    ELSE Ret(<<x.v[1], x.v[2], x.v[3]>>, Self)

pos(P, x, y, z) ==
    IF x = None THEN Val(P, PySeq(P))
    ELSE IF z # None THEN Ret(<<x.v, y.v, z.v>>, Self)
    ELSE IF y # None THEN Ret(<<x.v, y.v, 0>>, Self)
    ELSE Ret(<<x.v[1], x.v[2], x.v[3]>>, Self)

addPos(P, dp_x, dy, dz) ==
    IF dz = None THEN Ret(Add(P, dp_x.v), Self)
    ELSE Ret(Add(P, <<dp_x.v, dy.v, dz.v>>), Self)

\* the methods x(), y() and z()
x_(P, p) == IF p = None THEN Val(P, PyInt(P[1])) ELSE Ret(<<p.v, P[2], P[3]>>, Self)

y_(P, p) == IF p = None THEN Val(P, PyInt(P[2])) ELSE Ret(<<P[1], p.v, P[3]>>, Self)

z_(P, p) == IF p = None THEN Val(P, PyInt(P[3])) ELSE Ret(<<P[1], P[2], p.v>>, Self)

\* the rotation turned the other way round
rotate_clockwise(P, angle, axis, axis_point, rad) ==
    Bind(IF rad THEN angle ELSE deg2rad(angle), LAMBDA anglerad :
         Engine(Ret(Add(MatVec(RotationMatrix(CosQ(anglerad.n), -SinQ(anglerad.n),
                                              versor(axis)),
                               Sub(P, axis_point)), axis_point), Self),
                [fn |-> "RotateWXYZ", axis |-> versor(axis),
                 angle |-> IF rad THEN rad2deg(angle) ELSE angle]))

\* angle: a rational, of degrees, or of quarter turns when rad
rotate(P, angle, axis, axis_point, rad) ==
    Bind(IF rad THEN angle ELSE deg2rad(angle), LAMBDA anglerad :
         Engine(Ret(Add(MatVec(RotationMatrix(CosQ(anglerad.n), SinQ(anglerad.n),
                                              versor(axis)),
                               Sub(P, axis_point)), axis_point), Self),
                [fn |-> "RotateWXYZ", axis |-> versor(axis),
                 angle |-> IF rad THEN rad2deg(angle) ELSE angle]))

rotateX(P, angle, rad) ==
    Engine(Ret(P, Self), [fn |-> "RotateX", angle |-> IF rad THEN rad2deg(angle) ELSE angle])

rotateY(P, angle, rad) ==
    Engine(Ret(P, Self), [fn |-> "RotateY", angle |-> IF rad THEN rad2deg(angle) ELSE angle])

rotateZ(P, angle, rad) ==
    Engine(Ret(P, Self), [fn |-> "RotateZ", angle |-> IF rad THEN rad2deg(angle) ELSE angle])

---------------------------------------------------------------------------
(* Specification SpecPos: the position of an object and its rotations.     *)

Coords == -MaxCoord..MaxCoord
InCube(p) == \A i \in 1..3 : p[i] \in Coords

\* whole numbers of quarter turns, in degrees and in radians
Angles == {[angle |-> RatInt(90 * q), rad |-> FALSE] : q \in {-1, 0, 2}}
          \cup {[angle |-> RatInt(q), rad |-> TRUE] : q \in {1}}

Axes == {<<1, 0, 0>>, <<0, 0, 1>>, <<0, 0, -1>>, <<0, 2, 0>>}
Pivots == {<<0, 0, 0>>, <<1, 0, -1>>}

InitPos ==
    /\ \E a \in {DefaultArgs} : \E r \in {Volume__init__(a)} :
             /\ vol = r.obj
             /\ last = Call("Volume", a, FALSE, r)
             /\ hist = [mode |-> a.mode, color |-> a.c, alpha |-> a.alpha,
                        alphaGrad |-> a.alphaGradient]
    /\ actor = NewActor
    /\ position = <<0, 0, 0>>
    /\ pdata = NewData(0, 0)
    /\ env \in [mapscales : {TRUE}, autoResetScalarRange : {TRUE},
                hasGetSpacing : {FALSE}]

\* the actions on `position` leave the rest alone; positions stay in the
\* cube; `before` keeps the position a rotation started from
PosCall(op, arg, setter, r) ==
    /\ InCube(r.obj)
    /\ position' = r.obj
    /\ last' = [Call(op, arg, setter, r) EXCEPT !.before =
                    IF op = "rotate" THEN position ELSE @]
    /\ UNCHANGED <<vol, actor, pdata, env, hist>>

PosArgs == {<<1, 0, 0>>, <<-1, 1, 0>>, <<0, -1, MaxCoord>>}

\* pos(), pos(x, y, z), pos(x, y), pos((x, y, z))
Pos ==
    \/ \E r \in {pos(position, None, None, None)} :
           PosCall("pos", <<None, None, None>>, FALSE, r)
    \/ \E p \in PosArgs :
           \/ \E r \in {pos(position, PyInt(p[1]), PyInt(p[2]), PyInt(p[3]))} :
                  PosCall("pos", <<PyInt(p[1]), PyInt(p[2]), PyInt(p[3])>>, TRUE, r)
           \/ \E r \in {pos(position, PyInt(p[1]), PyInt(p[2]), None)} :
                  PosCall("pos", <<PyInt(p[1]), PyInt(p[2]), None>>, TRUE, r)
           \/ \E r \in {pos(position, PySeq(p), None, None)} :
                  PosCall("pos", <<PySeq(p), None, None>>, TRUE, r)

AddPos ==
    \E d \in {<<1, 0, 0>>, <<0, -1, 1>>} :
        \/ \E r \in {addPos(position, PySeq(d), None, None)} :
               PosCall("addPos", <<PySeq(d), None, None>>, TRUE, r)
        \/ \E r \in {addPos(position, PyInt(d[1]), PyInt(d[2]), PyInt(d[3]))} :
               PosCall("addPos", <<PyInt(d[1]), PyInt(d[2]), PyInt(d[3])>>, TRUE, r)

X == \E p \in {None} \cup {PyInt(c) : c \in Coords} :
         \E r \in {x_(position, p)} : PosCall("x", p, p # None, r)

Y == \E p \in {None} \cup {PyInt(c) : c \in Coords} :
         \E r \in {y_(position, p)} : PosCall("y", p, p # None, r)

Z == \E p \in {None} \cup {PyInt(c) : c \in Coords} :
         \E r \in {z_(position, p)} : PosCall("z", p, p # None, r)

\* rotate(angle, axis, axis_point, rad), the pivot being a fixed point or
\* the object's own position
Rotate ==
    \E a \in Angles, k \in Axes, ap \in Pivots \cup {position} :
        \E r \in {rotate(position, a.angle, k, ap, a.rad)} :
            PosCall("rotate", <<a.angle, k, ap, a.rad>>, TRUE, r)

RotateX == \E a \in Angles : \E r \in {rotateX(position, a.angle, a.rad)} :
               PosCall("rotateX", <<a.angle, a.rad>>, TRUE, r)

RotateY == \E a \in Angles : \E r \in {rotateY(position, a.angle, a.rad)} :
               PosCall("rotateY", <<a.angle, a.rad>>, TRUE, r)

RotateZ == \E a \in Angles : \E r \in {rotateZ(position, a.angle, a.rad)} :
               PosCall("rotateZ", <<a.angle, a.rad>>, TRUE, r)

NextPos == Pos \/ AddPos \/ X \/ Y \/ Z \/ Rotate \/ RotateX \/ RotateY \/ RotateZ

SpecPos == InitPos /\ [][NextPos]_vars

---------------------------------------------------------------------------
(* ActorBase: arrays on the points and cells of the input data.  D is the  *)
(* record `pdata`: the data object inputdata() returns, with the state of  *)
(* the mapper self._mapper.  An array is a record of its number of         *)
(* components and its tuples.                                              *)

\* the mapper calls that follow SetActiveScalars in addPointScalars and
\* addCellScalars
MapScalars(D, scalars, name, scalarMode) ==
    [D EXCEPT !.mapper.arrayName = PyStr(name),
              !.mapper.scalarRange =
                  IF env.autoResetScalarRange
                  THEN <<SeqMin(scalars), SeqMax(scalars)>> ELSE @,
              !.mapper.scalarMode = scalarMode,
              !.mapper.scalarVisibility = TRUE]

\* the array is added before its length is looked at
addPointScalars_checks_late(D, scalars, name) ==
    IF Len(scalars.v) # D.npoints
    THEN Printed(Err([D EXCEPT !.pointArrays[name] = [comps |-> 1, v |-> scalars.v]],
                     "RuntimeError"))
    ELSE Ret(MapScalars([D EXCEPT !.pointArrays[name] = [comps |-> 1, v |-> scalars.v],
                                  !.pointScalars = PyStr(name)],
                        scalars.v, name, "UsePointData"), Self)

addPointScalars(D, scalars, name) ==
    IF Len(scalars.v) # D.npoints
    THEN Printed(Err(D, "RuntimeError"))
    ELSE Ret(MapScalars([D EXCEPT !.pointArrays[name] = [comps |-> 1, v |-> scalars.v],
                                  !.pointScalars = PyStr(name)],
                        scalars.v, name, "UsePointData"), Self)

\* scalars: the values, already looked up when a point array was named
addCellScalars_values(D, scalars, name) ==
    IF Len(scalars) # D.ncells
    THEN Printed(Err(D, "RuntimeError"))
    ELSE Ret(MapScalars([D EXCEPT !.cellArrays[name] = [comps |-> 1, v |-> scalars],
                                  !.cellScalars = PyStr(name)],
                        scalars, name, "UseCellData"), Self)

\* a string names the point array to take the values from; vtk_to_numpy of
\* an array that does not exist raises
addCellScalars(D, scalars, name) ==
    IF scalars.t = "str"
    THEN IF D.pointArrays[scalars.v] = None
         THEN Err(D, "AttributeError")
         ELSE addCellScalars_values(D, D.pointArrays[scalars.v].v, name)
    ELSE addCellScalars_values(D, scalars.v, name)

addPointVectors(D, vectors, name) ==
    IF Len(vectors.v) # D.npoints
    THEN Printed(Err(D, "RuntimeError"))
    ELSE Ret([D EXCEPT !.pointArrays[name] = [comps |-> 3, v |-> vectors.v],
                       !.pointVectors = PyStr(name)], Self)

addCellVectors(D, vectors, name) ==
    IF Len(vectors.v) # D.ncells
    THEN Printed(Err(D, "RuntimeError"))
    ELSE Ret([D EXCEPT !.cellArrays[name] = [comps |-> 3, v |-> vectors.v],
                       !.cellVectors = PyStr(name)], Self)

---------------------------------------------------------------------------
(* Specification SpecArrays: an object whose input data has MaxSeq points  *)
(* and NumCells cells, and the methods that add arrays to it.              *)

NumCells == 2

\* arrays of 0..MaxSeq values
ScalarArgs == {PySeq([i \in 1..n |-> 2 * i]) : n \in 0..MaxSeq}
VectorArgs == {PySeq([i \in 1..n |-> <<i, 0, 1>>]) : n \in 0..MaxSeq}

InitArrays ==
    /\ \E a \in {DefaultArgs} : \E r \in {Volume__init__(a)} :
             /\ vol = r.obj
             /\ last = Call("Volume", a, FALSE, r)
             /\ hist = [mode |-> a.mode, color |-> a.c, alpha |-> a.alpha,
                        alphaGrad |-> a.alphaGradient]
    /\ actor = NewActor
    /\ position = <<0, 0, 0>>
    /\ pdata = NewData(MaxSeq, NumCells)
    /\ env \in [mapscales : {TRUE}, autoResetScalarRange : BOOLEAN,
                hasGetSpacing : {FALSE}]

\* the actions on `pdata` leave the rest alone
DataCall(op, arg, r) ==
    /\ pdata' = r.obj
    /\ last' = Call(op, arg, TRUE, r)
    /\ UNCHANGED <<vol, actor, position, env, hist>>

AddPointScalars ==
    \E scalars \in ScalarArgs, name \in ArrayNames :
        \E r \in {addPointScalars(pdata, scalars, name)} :
            DataCall("addPointScalars", <<scalars, name>>, r)

AddCellScalars ==
    \E scalars \in ScalarArgs \cup {PyStr("a")}, name \in ArrayNames :
        \E r \in {addCellScalars(pdata, scalars, name)} :
            DataCall("addCellScalars", <<scalars, name>>, r)

AddPointVectors ==
    \E vectors \in VectorArgs, name \in {"b"} :
        \E r \in {addPointVectors(pdata, vectors, name)} :
            DataCall("addPointVectors", <<vectors, name>>, r)

AddCellVectors ==
    \E vectors \in VectorArgs, name \in {"b"} :
        \E r \in {addCellVectors(pdata, vectors, name)} :
            DataCall("addCellVectors", <<vectors, name>>, r)

NextArrays == AddPointScalars \/ AddCellScalars \/ AddPointVectors \/ AddCellVectors

SpecArrays == InitArrays /\ [][NextArrays]_vars

---------------------------------------------------------------------------
(* Python floats.  A float is a binary floating-point number with a        *)
(* mantissa of FloatBits bits, kept as the rational it equals; every       *)
(* literal and every operation is rounded to the nearest such number, ties *)
(* to the even mantissa.  Python's floats have 53 bits; 9 is congruent to  *)
(* 53 modulo 4, the period of the binary expansion of the fifths, so the   *)
(* fractions used below round the way they do in Python.                   *)

FloatBits == 9

RatSub(a, b) == Rat(a.n * b.d - b.n * a.d, a.d * b.d)
RatMul(a, b) == Rat(a.n * b.n, a.d * b.d)
RatLeq(a, b) == a.n * b.d <= b.n * a.d

\* the k for which n/d * 2^k has FloatBits binary digits before the point
Exponent(n, d) ==
    CHOOSE k \in 0..(FloatBits + 3) :
        /\ n * 2^k >= d * 2^(FloatBits - 1)
        /\ k = 0 \/ n * 2^(k - 1) < d * 2^(FloatBits - 1)

\* the integer nearest to num/d, the even one of two equally near
Nearest(num, d) ==
    IF 2 * (num % d) > d \/ (2 * (num % d) = d /\ ((num \div d) % 2) = 1)
    THEN (num \div d) + 1 ELSE num \div d

RoundAt(n, d, k) == Rat(Nearest(n * 2^k, d), 2^k)

\* the float nearest to the rational q
fround(q) ==
    IF q.n = 0 THEN q
    ELSE IF q.n > 0 THEN RoundAt(q.n, q.d, Exponent(q.n, q.d))
    ELSE RatSub(RatInt(0), RoundAt(-q.n, q.d, Exponent(-q.n, q.d)))

\* the number a Python int or float literal denotes
Num(a) == IF a.t = "int" THEN RatInt(a.v) ELSE fround(a.v)

\* int(q): truncation towards zero
pyint(q) == IF q.n >= 0 THEN q.n \div q.d ELSE -((-q.n) \div q.d)

---------------------------------------------------------------------------
(* Volume.crop and the slices.                                             *)

Max(a, b) == IF a >= b THEN a ELSE b
Min(a, b) == IF a <= b THEN a ELSE b

\* int((d-1)*f) and int((d-1)*(1-f)), d being the dimension dm
cropLow(dm, f) ==
    IF f = None THEN 0 ELSE pyint(fround(RatMul(RatInt(dm - 1), Num(f))))

cropHigh(dm, f) ==
    IF f = None THEN dm - 1
    ELSE pyint(fround(RatMul(RatInt(dm - 1), fround(RatSub(RatInt(1), Num(f))))))

\* the voxels lo[i] .. lo[i] + n[i] - 1 of img as the image `id`; the
\* output keeps origin and spacing, and its voxels are counted from 0 here
Extract(img, id, lo, n) ==
    [img EXCEPT
        !.id = id, !.dims = n,
        !.scalars = [j \in 1..(n[1] * n[2] * n[3]) |->
            @[1 + (lo[1] + ((j - 1) % n[1]))
                + img.dims[1] * ((lo[2] + (((j - 1) \div n[1]) % n[2]))
                + img.dims[2] * (lo[3] + ((j - 1) \div (n[1] * n[2]))))]]]

\* vtkExtractVOI: the VOI is clipped to the image; nothing is left when it
\* is inverted or outside
ExtractVOI(img, id, voi) ==
    IF \E i \in 1..3 : \/ voi[2 * i - 1] > voi[2 * i]
                       \/ voi[2 * i] < 0
                       \/ voi[2 * i - 1] > img.dims[i] - 1
    THEN [EmptyImage(id) EXCEPT !.spacing = img.spacing, !.origin = img.origin]
    ELSE Extract(img, id,
                 [i \in 1..3 |-> Max(voi[2 * i - 1], 0)],
                 [i \in 1..3 |-> Min(voi[2 * i], img.dims[i] - 1)
                                   - Max(voi[2 * i - 1], 0) + 1])

\* a: the arguments top, bottom, right, left, front, back and VOI
cropVOI(d, a) ==
    IF Len(a.VOI) > 0 THEN a.VOI
    ELSE <<cropLow(d[1], a.left), cropHigh(d[1], a.right),
           cropLow(d[2], a.back), cropHigh(d[2], a.front),
           cropLow(d[3], a.bottom), cropHigh(d[3], a.top)>>

crop(o, a) ==
    IF o._imagedata = Unset \/ o._mapper = NoMapper
    THEN Err(o, "AttributeError")
    ELSE Bind(cropVOI(o._imagedata.dims, a), LAMBDA voi :
              Engine(_update(o, ExtractVOI(o._imagedata, FreshId(o), voi)),
                     [fn |-> "SetVOI", voi |-> voi]))

\* the slices return a new Mesh made from the extent they request
xSlice(o, i) ==
    IF o._imagedata = Unset THEN Err(o, "AttributeError")
    ELSE Engine(Val(o, PyStr("Mesh")),
                [fn |-> "SetExtent",
                 extent |-> <<Min(i, o._imagedata.dims[1] - 1),
                              Min(i, o._imagedata.dims[1] - 1),
                              0, o._imagedata.dims[2], 0, o._imagedata.dims[3]>>])

ySlice(o, j) ==
    IF o._imagedata = Unset THEN Err(o, "AttributeError")
    ELSE Engine(Val(o, PyStr("Mesh")),
                [fn |-> "SetExtent",
                 extent |-> <<0, o._imagedata.dims[1],
                              Min(j, o._imagedata.dims[2] - 1),
                              Min(j, o._imagedata.dims[2] - 1),
                              0, o._imagedata.dims[3]>>])

zSlice(o, k) ==
    IF o._imagedata = Unset THEN Err(o, "AttributeError")
    ELSE Engine(Val(o, PyStr("Mesh")),
                [fn |-> "SetExtent",
                 extent |-> <<0, o._imagedata.dims[1], 0, o._imagedata.dims[2],
                              Min(k, o._imagedata.dims[3] - 1),
                              Min(k, o._imagedata.dims[3] - 1)>>])

---------------------------------------------------------------------------
(* Specification SpecCrop: a Volume of 6 x 1 x 2 voxels, or an empty one,  *)
(* cropped and sliced.                                                     *)

CropImage == Image(0, "vtkImageData", <<6, 1, 2>>, <<1, 1, 1>>, <<0, 0, 0>>,
                   <<1, 2, 3, 4, 5, 6, 7, 8, 9, 10, 11, 12>>)

NoCrop == [top |-> None, bottom |-> None, right |-> None, left |-> None,
           front |-> None, back |-> None, VOI |-> <<>>]

Fifth(k) == PyFloat(Rat(k, 5))

\* fractions left/right, bottom/top and back/front, each pair summing to at
\* most 1, and a VOI with and without fractions
CropArgs ==
    { NoCrop,
      [NoCrop EXCEPT !.left = Fifth(1), !.right = Fifth(4)],
      [NoCrop EXCEPT !.left = Fifth(1)],
      [NoCrop EXCEPT !.right = PyFloat(Rat(1, 2)), !.top = PyFloat(Rat(1, 2))],
      [NoCrop EXCEPT !.left = PyInt(0), !.right = Fifth(2), !.back = PyInt(0)],
      [NoCrop EXCEPT !.bottom = PyFloat(Rat(1, 2)), !.front = PyInt(0)],
      [NoCrop EXCEPT !.VOI = <<1, 4, 0, 0, 0, 1>>],
      [NoCrop EXCEPT !.VOI = <<1, 4, 0, 0, 0, 1>>, !.left = Fifth(4)] }

SliceArgs == -1..MaxSeq

InitCrop ==
    /\ \E i \in {[kind |-> "None"], [kind |-> "ImageData", img |-> CropImage]} :
         \E a \in {[DefaultArgs EXCEPT !.inputobj = i]} : \E r \in {Volume__init__(a)} :
             /\ vol = r.obj
             /\ last = Call("Volume", a, FALSE, r)
             /\ hist = [mode |-> a.mode, color |-> a.c, alpha |-> a.alpha,
                        alphaGrad |-> a.alphaGradient]
    /\ actor = NewActor
    /\ position = <<0, 0, 0>>
    /\ pdata = NewData(0, 0)
    /\ env \in [mapscales : {TRUE}, autoResetScalarRange : {TRUE},
                hasGetSpacing : {FALSE}]

\* the calls below keep in `before` the dimensions the image had
CropCall(op, arg, setter, r) ==
    /\ vol' = r.obj
    /\ last' = [Call(op, arg, setter, r) EXCEPT !.before = vol._imagedata.dims]
    /\ UNCHANGED <<actor, position, pdata, env, hist>>

\* vol.crop(top, bottom, right, left, front, back, VOI)
Crop == \E a \in CropArgs : \E r \in {crop(vol, a)} : CropCall("crop", a, TRUE, r)

XSlice == \E i \in SliceArgs : \E r \in {xSlice(vol, i)} : CropCall("xSlice", i, FALSE, r)

YSlice == \E j \in SliceArgs : \E r \in {ySlice(vol, j)} : CropCall("ySlice", j, FALSE, r)

ZSlice == \E k \in SliceArgs : \E r \in {zSlice(vol, k)} : CropCall("zSlice", k, FALSE, r)

NextCrop == Crop \/ XSlice \/ YSlice \/ ZSlice

SpecCrop == InitCrop /\ [][NextCrop]_vars

---------------------------------------------------------------------------
(* ActorBase.mapper, inputdata and Volume.imagedata, permuteAxes, append,  *)
(* resize, normalize, scaleVoxels: the filters whose output replaces the   *)
(* image data of the Volume.                                               *)

MaxVoxels == 2
MaxValue == 3
MaxSpacing == 2

\* the zero-based (x, y, z) of position i of the x-fastest array, and back
Coord(i, dims) ==
    <<(i - 1) % dims[1], ((i - 1) \div dims[1]) % dims[2],
      (i - 1) \div (dims[1] * dims[2])>>

Index(c, dims) == 1 + c[1] + dims[1] * (c[2] + dims[2] * c[3])

\* the output of a filter: the image `id` of the dimensions dims whose voxel
\* at c is the voxel of img at from(c)
Resampled(img, id, dims, from(_)) ==
    [img EXCEPT !.id = id, !.dims = dims,
                !.scalars = [j \in 1..(dims[1] * dims[2] * dims[3]) |->
                                img.scalars[Index(from(Coord(j, dims)), img.dims)]]]

imagedata(o) == Val(o, o._imagedata)

\* ActorBase.mapper(newMapper): the new mapper is installed on the engine's
\* prop and takes the input of the mapper it replaces
mapper(o, newMapper) ==
    IF newMapper = None THEN Val(o, o._mapper)
    ELSE Bind([newMapper EXCEPT
                  !.input = IF o._mapper # NoMapper /\ o._mapper.input # NoImage
                            THEN o._mapper.input ELSE @,
                  !.modified = TRUE],
              LAMBDA m : Val([o EXCEPT !.engineMapper = m.id, !._mapper = m], m))

\* ActorBase.inputdata(): without self._mapper the engine's mapper is asked,
\* and a prop without a mapper has none to ask
inputdata(o) ==
    IF o._mapper # NoMapper THEN Val(o, o._mapper.input)
    ELSE Err(o, "AttributeError")

\* vtkImagePermute: the input axes p = (x, y, z) become the axes 0, 1, 2
Permute(img, id, p) ==
    [Resampled(img, id, [k \in 1..3 |-> img.dims[p[k] + 1]],
               LAMBDA c : [a \in 1..3 |-> c[CHOOSE k \in 1..3 : p[k] + 1 = a]])
     EXCEPT !.spacing = [k \in 1..3 |-> img.spacing[p[k] + 1]],
            !.origin = [k \in 1..3 |-> img.origin[p[k] + 1]]]

permuteAxes(o, x, y, z) ==
    IF o._imagedata = Unset \/ o._mapper = NoMapper
    THEN Err(o, "AttributeError")
    ELSE _update(o, Permute(o._imagedata, FreshId(o), <<x, y, z>>))

\* vtkImageAppend of the image and one more along axis; the output has the
\* origin and spacing of the first
ImageAppend(img, id, other, axis) ==
    Bind([k \in 1..3 |-> IF k = axis + 1 THEN img.dims[k] + other.dims[k]
                         ELSE img.dims[k]],
         LAMBDA dims :
            [img EXCEPT !.id = id, !.dims = dims,
                !.scalars = [j \in 1..(dims[1] * dims[2] * dims[3]) |->
                    IF Coord(j, dims)[axis + 1] < img.dims[axis + 1]
                    THEN img.scalars[Index(Coord(j, dims), img.dims)]
                    ELSE other.scalars[Index(
                            [Coord(j, dims) EXCEPT ![axis + 1] = @ - img.dims[axis + 1]],
                            other.dims)]]])

\* append(volumes, axis) with one Volume to append
append(o, volume, axis) ==
    IF o._imagedata = Unset \/ volume._imagedata = Unset \/ o._mapper = NoMapper
    THEN Err(o, "AttributeError")
    ELSE _update(o, ImageAppend(o._imagedata, FreshId(o), volume._imagedata,
                                CASE axis = "x" -> 0 [] axis = "y" -> 1
                                  [] axis = "z" -> 2))

\* vtkImageResize to the output dimensions newdims: the interpolated voxel
\* is taken to be the input voxel its position falls in
Resize(img, id, newdims) ==
    IF GetNumberOfPoints(img) = 0 THEN [img EXCEPT !.id = id]
    ELSE Resampled(img, id, newdims,
                   LAMBDA c : [k \in 1..3 |-> (c[k] * img.dims[k]) \div newdims[k]])

\* the new spacing old_spac * old_dims / newdims is set on the output, which
\* is self._imagedata before _update is reached
resize(o, newdims) ==
    IF o._imagedata = Unset \/ o._mapper = NoMapper
    THEN Err(o, "AttributeError")
    ELSE _update([o EXCEPT !._imagedata = Resize(@, FreshId(o), newdims)],
                 [Resize(o._imagedata, FreshId(o), newdims) EXCEPT
                     !.spacing = [k \in 1..3 |->
                         (o._imagedata.spacing[k] * o._imagedata.dims[k])
                             \div newdims[k]]])

\* vtkImageNormalize: each voxel divided by its magnitude
normalize(o) ==
    IF o._imagedata = Unset \/ o._mapper = NoMapper
    THEN Err(o, "AttributeError")
    ELSE _update(o, [o._imagedata EXCEPT
                        !.id = FreshId(o),
                        !.scalars = [i \in DOMAIN @ |->
                            IF @[i] = 0 THEN 0 ELSE @[i] \div Abs(@[i])]])

\* vtkImageReslice with SetScalarScale(scale); factor is the argument scale
scaleVoxels(o, factor) ==
    IF o._imagedata = Unset \/ o._mapper = NoMapper
    THEN Err(o, "AttributeError")
    ELSE _update(o, [o._imagedata EXCEPT
                        !.id = FreshId(o),
                        !.scalars = [i \in DOMAIN @ |-> @[i] * factor]])

---------------------------------------------------------------------------
(* Specification SpecLink: a Volume built from a sequence or from no       *)
(* input, and the methods that replace its image data or its mapper.       *)

InitLink ==
    /\ \E i \in {j \in InputObjs : \/ j.kind = "None"
                                   \/ j.kind = "sequence" /\ Len(j.ravel) <= MaxVoxels} :
         \E a \in {[DefaultArgs EXCEPT !.inputobj = i]} : \E r \in {Volume__init__(a)} :
             /\ vol = r.obj
             /\ last = Call("Volume", a, FALSE, r)
             /\ hist = [mode |-> a.mode, color |-> a.c, alpha |-> a.alpha,
                        alphaGrad |-> a.alphaGradient]
    /\ actor = NewActor
    /\ position = <<0, 0, 0>>
    /\ pdata = NewData(0, 0)
    /\ env \in [mapscales : {TRUE}, autoResetScalarRange : {TRUE},
                hasGetSpacing : {FALSE}]

\* the calls below keep in `before` the input the mapper had
LinkCall(op, arg, setter, r) ==
    /\ vol' = r.obj
    /\ last' = [Call(op, arg, setter, r) EXCEPT !.before = vol._mapper.input]
    /\ UNCHANGED <<actor, position, pdata, env, hist>>

\* a mapper object other than the current one
FreshMapper(o, kind) == NewMapper(CHOOSE i \in 0..1 : i # o._mapper.id, kind)

\* vol.mapper(), vol.mapper(vol.mapper()), vol.mapper(newMapper)
Mapper ==
    \E m \in {None, vol._mapper}
             \cup {FreshMapper(vol, "vtkFixedPointVolumeRayCastMapper")} :
        \E r \in {mapper(vol, m)} : LinkCall("mapper", m, FALSE, r)

\* vol.imagedata(), vol.inputdata()
ImageData ==
    \/ \E r \in {imagedata(vol)} : LinkCall("imagedata", None, FALSE, r)
    \/ \E r \in {inputdata(vol)} : LinkCall("inputdata", None, FALSE, r)

\* vol.permuteAxes(x, y, z)
PermuteAxes ==
    \E p \in {<<1, 0, 2>>} :
        \E r \in {permuteAxes(vol, p[1], p[2], p[3])} :
            LinkCall("permuteAxes", p, TRUE, r)

\* vol.append(vol, axis), while the image stays within MaxVoxels
AppendVolume ==
    /\ 2 * GetNumberOfPoints(vol._imagedata) <= MaxVoxels
    /\ \E axis \in {"x", "y"} :
         \E r \in {append(vol, vol, axis)} : LinkCall("append", axis, TRUE, r)

\* vol.resize(*newdims), for dimensions that keep the spacing whole and
\* within MaxSpacing
ResizeArgs(img) ==
    {n \in {<<1, 1, 1>>, <<2, 1, 1>>} :
        \A k \in 1..3 : /\ (img.spacing[k] * img.dims[k]) % n[k] = 0
                        /\ (img.spacing[k] * img.dims[k]) \div n[k] <= MaxSpacing}

ResizeTo ==
    \E n \in ResizeArgs(vol._imagedata) :
        \E r \in {resize(vol, n)} : LinkCall("resize", n, TRUE, r)

\* vol.normalize()
Normalize == \E r \in {normalize(vol)} : LinkCall("normalize", None, TRUE, r)

\* vol.scaleVoxels(scale), while the voxels stay within MaxValue
ScaleVoxels ==
    \E f \in {s \in {1, 2} : s * GetScalarRange(vol._imagedata)[2] <= MaxValue} :
        \E r \in {scaleVoxels(vol, f)} : LinkCall("scaleVoxels", f, TRUE, r)

NextLink ==
    \/ Spacing \/ Threshold \/ Crop \/ Mirror
    \/ PermuteAxes \/ ResizeTo \/ Normalize \/ ScaleVoxels \/ AppendVolume
    \/ Mapper \/ ImageData

SpecLink == InitLink /\ [][NextLink]_vars

---------------------------------------------------------------------------
(* Claims about the constructor and the transfer functions.                *)

Smin == GetScalarRange(vol._imagedata)[1]
Smax == GetScalarRange(vol._imagedata)[2]

\* the control point p lies at smin + (smax - smin) * i / (n - 1)
AtFraction(p, smin, smax, i, n) ==
    p.x.n * (n - 1) = (smin * (n - 1) + (smax - smin) * i) * p.x.d

\* the transfer function tf has one point per element of seq, equally
\* spaced from smin to smax in input order, carrying the values F(seq[i])
Spread(tf, seq, smin, smax, F(_)) ==
    /\ Len(tf) = Len(seq)
    /\ \A i \in 1..Len(seq) :
         /\ AtFraction(tf[i], smin, smax, i - 1, Len(seq))
         /\ tf[i].v = F(seq[i])
    /\ tf[1].x = RatInt(smin)
    /\ tf[Len(seq)].x = RatInt(smax)

\* the transfer function tf holds the value v at smin and at smax only
Constant(tf, smin, smax, v) ==
    tf = << [x |-> RatInt(smin), v |-> v], [x |-> RatInt(smax), v |-> v] >>

Identity(x) == x

\* the transfer function the latest color/alpha call installed
Installed == IF last.op = "color" THEN vol.prop.color ELSE vol.prop.scalarOpacity
InstalledValue(x) == IF last.op = "color" THEN getColor(x) ELSE x

\* C3 (as claimed): a call that prints a diagnostic ends by raising; no such
\* call returns normally.
C3_FailFast == last.printed => last.ret \in Raises

C6_GradientSpansScalarRange ==
    (/\ last.op = "alphaGradient" /\ last.ret = Self /\ vol.built = "ok"
     /\ isSequence(last.arg) /\ Len(last.arg.v) >= 2) =>
        Spread(vol.prop.gradientOpacity, last.arg.v, Smin, Smax, Identity)

\* C7 (as claimed): once the constructor has returned, _mode, _color, _alpha
\* and _alphaGrad equal the argument of the latest call of mode, color, alpha
\* and alphaGradient, or the constructor's argument.
C7_CachedFields ==
    vol.built # "new" =>
        /\ vol._mode = hist.mode
        /\ vol._color = hist.color
        /\ vol._alpha = hist.alpha
        /\ vol._alphaGrad = hist.alphaGrad

\* the mapper class the class docstring promises for a mapperType
DocumentedMapper(mapperType) ==
    CASE mapperType = S_gpu -> "vtkGPUVolumeRayCastMapper"
      [] mapperType = S_opengl_gpu -> "vtkOpenGLGPUVolumeRayCastMapper"
      [] mapperType = S_fixed -> "vtkFixedPointVolumeRayCastMapper"
      [] mapperType = S_smart -> "vtkSmartVolumeMapper"

\* C10 (as claimed): 'gpu', 'opengl_gpu', 'fixed' and 'smart' each select
\* their own mapper class, and an unstructured grid gets the tetrahedra
\* mapper whatever mapperType is.
C10_MapperTypeSelects ==
    (last.op = "Volume" /\ vol.built = "ok") =>
        IF last.arg.inputobj.kind = "UnstructuredGrid"
        THEN vol._mapper.kind = "vtkProjectedTetrahedraMapper"
        ELSE last.arg.mapperType \in {S_gpu, S_opengl_gpu, S_fixed, S_smart} =>
                vol._mapper.kind = DocumentedMapper(last.arg.mapperType)

---------------------------------------------------------------------------
(* Claims about the set/get methods, the image data and the rotations.     *)

\* C1 (as claimed): every call that supplies a value to a setter and does
\* not raise returns the object it was called on.
C1_SettersReturnSelf == (last.setter /\ last.ret \notin Raises) => last.ret = Self

\* C4: spacing(s) returns the object, after it spacing() returns s, and of
\* the image data only the spacing has changed: dimensions, origin, voxel
\* values and the identity of the image and of the mapper are as before;
\* spacing() returns the spacing and changes nothing.
C4_SpacingSetGet ==
    [][(last'.op = "spacing" /\ last'.ret \notin Raises) =>
          IF last'.arg # None
          THEN /\ last'.ret = Self
               /\ spacing(vol', None).ret = "value"
               /\ spacing(vol', None).val = last'.arg
               /\ spacing(vol', None).obj = vol'
               /\ vol'._imagedata = [vol._imagedata EXCEPT !.spacing = last'.arg.v]
               /\ vol'._mapper.id = vol._mapper.id
               /\ vol'._mapper.kind = vol._mapper.kind
               /\ vol'._mapper.input = vol'._imagedata
               /\ vol'.prop = vol.prop
          ELSE /\ last'.val = PySeq(vol._imagedata.spacing)
               /\ vol' = vol]_vars

\* C4 witness: spacing((1, 2, 3)) has set the spacing of a non-empty image
\* whose voxels had another spacing at construction.
C4_Witness ==
    /\ last.op = "spacing" /\ last.ret = Self
    /\ last.arg = PySeq(<<1, 2, 3>>)
    /\ vol._imagedata.spacing = <<1, 2, 3>>
    /\ vol._imagedata.scalars # <<>>
    /\ vol._mapper.input = vol._imagedata

\* C8 (as claimed): resample(newSpacing) returns the object, whose image data
\* then has the spacing newSpacing and is non-empty if it was before.
C8_Resampled ==
    [][last'.op = "resample" =>
          /\ last'.ret = Self
          /\ vol'._imagedata.spacing = last'.arg.v
          /\ (vol._imagedata.scalars # <<>> => vol'._imagedata.scalars # <<>>)]_vars

\* the rotation of v about the unit axis k by an angle of cosine co and sine
\* si, after Rodrigues: v co + (k x v) si + k (k . v) (1 - co)
Rodrigues(v, k, co, si) ==
    [i \in 1..3 |-> v[i] * co + Cross(k, v)[i] * si + k[i] * Dot(k, v) * (1 - co)]

\* the unit vector along axis
Unit(axis) ==
    CHOOSE u \in {-1, 0, 1} \X {-1, 0, 1} \X {-1, 0, 1} :
        /\ Dot(u, u) = 1
        /\ \E m \in 1..3 : axis = <<m * u[1], m * u[2], m * u[3]>>

\* the quarter turns and the degrees of a rotate(angle, axis, axis_point, rad)
QuarterTurns(arg) == IF arg[4] THEN arg[1].n ELSE arg[1].n \div 90
Degrees(arg) == IF arg[4] THEN 90 * arg[1].n ELSE arg[1].n

\* where three further calls of the same rotation take the position p
ThriceMore(p, arg) ==
    rotate(rotate(rotate(p, arg[1], arg[2], arg[3], arg[4]).obj,
                  arg[1], arg[2], arg[3], arg[4]).obj,
           arg[1], arg[2], arg[3], arg[4]).obj

\* C9: rotate(angle, axis, axis_point) moves the position p to
\* R(p - axis_point) + axis_point, R being the rotation by angle about axis,
\* and calls the engine's RotateWXYZ with the angle in degrees and the
\* normalised axis; the position stays when axis_point is the position or
\* the angle is 0, and four equal quarter turns bring it back.
C9_Rotate ==
    last.op = "rotate" =>
        /\ last.ret = Self
        /\ position = Add(Rodrigues(Sub(last.before, last.arg[3]), Unit(last.arg[2]),
                                    CosQ(QuarterTurns(last.arg)),
                                    SinQ(QuarterTurns(last.arg))),
                          last.arg[3])
        /\ last.engine = [fn |-> "RotateWXYZ", axis |-> Unit(last.arg[2]),
                          angle |-> RatInt(Degrees(last.arg))]
        /\ (last.arg[3] = last.before => position = last.before)
        /\ (QuarterTurns(last.arg) = 0 => position = last.before)
        /\ (QuarterTurns(last.arg) % 2 = 1 =>
               ThriceMore(position, last.arg) = last.before)

\* C9 witness: a quarter turn about the z axis through the origin, given in
\* radians, has taken the object from (1, 0, 0) to (0, 1, 0).
C9_Witness ==
    /\ last.op = "rotate" /\ last.ret = Self
    /\ last.arg = <<RatInt(1), <<0, 0, 1>>, <<0, 0, 0>>, TRUE>>
    /\ last.engine.angle = RatInt(90)
    /\ last.before = <<1, 0, 0>>
    /\ position = <<0, 1, 0>>

\* the number of values of the array handed to the call arg, a string naming
\* a point array of D
ArrayLen(arg, D) ==
    IF arg[1].t = "str" THEN Len(D.pointArrays[arg[1].v].v) ELSE Len(arg[1].v)

\* the call arg hands over an array that does not fit the points or cells of D
Mismatch(op, arg, D) ==
    /\ op \in {"addPointScalars", "addPointVectors", "addCellScalars", "addCellVectors"}
    /\ arg[1].t = "str" => D.pointArrays[arg[1].v] # None
    /\ ArrayLen(arg, D) #
           IF op \in {"addPointScalars", "addPointVectors"} THEN D.npoints ELSE D.ncells

\* C2: addPointScalars, addPointVectors, addCellScalars and addCellVectors
\* given an array whose length is not the number of points (resp. cells)
\* print and raise a runtime error and leave the arrays, the active scalars
\* and vectors and the mapper's array name, scalar mode, scalar range and
\* scalar visibility as they were.
C2_MismatchRaises ==
    [][Mismatch(last'.op, last'.arg, pdata) =>
          /\ last'.ret = "RuntimeError"
          /\ last'.printed
          /\ pdata' = pdata]_vars

\* C2 witness: addCellScalars, told to take the values of the point array
\* "a", has raised on an object that has point and cell arrays and whose
\* mapper shows the cell scalars "b".
C2_Witness ==
    /\ last.op = "addCellScalars" /\ last.ret = "RuntimeError"
    /\ last.arg[1] = PyStr("a")
    /\ pdata.pointArrays["a"] # None /\ pdata.pointVectors = PyStr("b")
    /\ pdata.cellArrays["b"] # None /\ pdata.cellScalars = PyStr("b")
    /\ pdata.mapper = [arrayName |-> PyStr("b"), scalarRange |-> <<2, 2 * NumCells>>,
                       scalarMode |-> "UseCellData", scalarVisibility |-> TRUE]

\* C11: for m in 0..4, mode(m) returns the object and a following mode()
\* returns m; mode() returns the mapper's blend mode and changes no state of
\* the volume.
C11_ModeSetGet ==
    [][(last'.op = "mode" /\ last'.ret \notin Raises) =>
          IF last'.arg # None
          THEN /\ last'.ret = Self
               /\ mode(vol', None).ret = "value"
               /\ mode(vol', None).val = last'.arg
               /\ mode(vol', None).obj = vol'
          ELSE /\ last'.ret = "value"
               /\ last'.val = PyInt(vol._mapper.blend)
               /\ vol' = vol]_vars

\* C11 witness: mode(3) on a volume built with a fixed-point mapper, whose
\* blend mode is now 3.
C11_Witness ==
    /\ last.op = "mode" /\ last.ret = Self /\ last.arg = PyInt(3)
    /\ vol.built = "ok" /\ vol._mapper.blend = 3
    /\ vol._mapper.kind = "vtkFixedPointVolumeRayCastMapper"

\* C12: after pos(x, y, z), pos((x, y, z)) and pos(x, y) a call of pos()
\* returns (x, y, z), (x, y, z) and (x, y, 0); pos() returns the position
\* and leaves it as it was.
C12_PosSetGet ==
    /\ pos(position, None, None, None).ret = "value"
    /\ pos(position, None, None, None).obj = position
    /\ last.op = "pos" =>
          IF last.arg[1] = None
          THEN last.ret = "value" /\ last.val = PySeq(position)
          ELSE /\ last.ret = Self
               /\ pos(position, None, None, None).val =
                      IF isSequence(last.arg[1]) THEN last.arg[1]
                      ELSE IF last.arg[3] # None
                      THEN PySeq(<<last.arg[1].v, last.arg[2].v, last.arg[3].v>>)
                      ELSE PySeq(<<last.arg[1].v, last.arg[2].v, 0>>)

\* C12 witness: pos(0, -1) has put the object at (0, -1, 0).
C12_Witness ==
    /\ last.op = "pos" /\ last.ret = Self
    /\ last.arg = <<PyInt(0), PyInt(-1), None>>
    /\ position = <<0, -1, 0>>

\* what the getter form of the set/get pair op returns on the object A
Getter(op, A) ==
    CASE op = "time" -> time(A, None).val
      [] op = "legend" -> legend(A, None).val
      [] op = "pickable" -> pickable(A, None).val
      [] op = "scale" -> scale(A, None).val

\* C13 (as claimed): after time(v), legend(v), pickable(v) or scale(v) the
\* getter form returns v (for scale(v) with one factor v, that factor on
\* the three axes).
C13_SetGet ==
    (last.op \in {"time", "legend", "pickable", "scale"} /\ last.arg # None) =>
        Getter(last.op, actor) =
            IF last.op = "scale" /\ ~isSequence(last.arg)
            THEN PySeq(<<last.arg.v, last.arg.v, last.arg.v>>)
            ELSE last.arg

\* C15 (as claimed): after a lighting() call that returned, the object's
\* lighting flag is the enabled argument of that call.
C15_LightingEnabled ==
    (last.op = "lighting" /\ last.ret = Self) =>
        vol.prop.lighting = last.arg[2].enabled

\* C14 (as claimed): mirror('x'|'y'|'z', in either case) returns the volume,
\* whose image data is now the old data flipped along that axis; mirror('n')
\* returns the volume with the voxel data as it was; any other axis raises a
\* runtime error and leaves image data and mapper input alone.
C14_Mirror ==
    [][(last'.op = "mirror" /\ vol._imagedata # Unset) =>
          IF Lower(last'.arg) \in {"x", "y", "z"}
          THEN /\ last'.ret = Self
               /\ vol'._imagedata = Flip(vol._imagedata, vol'._imagedata.id,
                      CASE Lower(last'.arg) = "x" -> 0 [] Lower(last'.arg) = "y" -> 1
                        [] Lower(last'.arg) = "z" -> 2)
               /\ vol'._mapper.input = vol'._imagedata
          ELSE IF Lower(last'.arg) = "n"
          THEN /\ last'.ret = Self
               /\ vol'._imagedata.scalars = vol._imagedata.scalars
          ELSE /\ last'.ret = "RuntimeError"
               /\ vol'._imagedata = vol._imagedata
               /\ vol'._mapper.input = vol._mapper.input]_vars

\* the fraction an argument of crop stands for, none given being 0
Frac(f) == IF f = None THEN RatInt(0) ELSE IF f.t = "int" THEN RatInt(f.v) ELSE f.v

\* the fractions cropped from the low and from the high side of axis i
AxisFractions(a, i) ==
    CASE i = 1 -> <<Frac(a.left), Frac(a.right)>>
      [] i = 2 -> <<Frac(a.back), Frac(a.front)>>
      [] i = 3 -> <<Frac(a.bottom), Frac(a.top)>>

Floor(q) == q.n \div q.d

\* C16 (as claimed): crop hands a non-empty VOI to the engine as it is;
\* otherwise, on every axis of a volume of d >= 1 voxels, with fractions
\* f_low + f_high <= 1, it asks for lower = floor((d-1) f_low) and
\* upper = floor((d-1)(1 - f_high)), with 0 <= lower <= upper <= d-1 (the
\* full extent 0..d-1 when no fraction is given).
C16_CropBounds ==
    (last.op = "crop" /\ last.ret = Self) =>
        IF Len(last.arg.VOI) > 0
        THEN last.engine.voi = last.arg.VOI
        ELSE \A i \in 1..3 :
               (/\ last.before[i] >= 1
                /\ RatLeq(AxisFractions(last.arg, i)[1],
                          RatSub(RatInt(1), AxisFractions(last.arg, i)[2]))) =>
                  /\ last.engine.voi[2 * i - 1] =
                        Floor(RatMul(RatInt(last.before[i] - 1),
                                     AxisFractions(last.arg, i)[1]))
                  /\ last.engine.voi[2 * i] =
                        Floor(RatMul(RatInt(last.before[i] - 1),
                                     RatSub(RatInt(1), AxisFractions(last.arg, i)[2])))
                  /\ 0 <= last.engine.voi[2 * i - 1]
                  /\ last.engine.voi[2 * i - 1] <= last.engine.voi[2 * i]
                  /\ last.engine.voi[2 * i] <= last.before[i] - 1

\* the axis xSlice, ySlice or zSlice cuts
SliceAxis(op) == CASE op = "xSlice" -> 1 [] op = "ySlice" -> 2 [] op = "zSlice" -> 3

\* C17 (as claimed): a slice asks for the extent index..index on its axis,
\* an index above n-1 counting as n-1, and every index of the extent it asks
\* for lies in 0..n-1 on every axis.
C17_SliceExtent ==
    (last.op \in {"xSlice", "ySlice", "zSlice"} /\ last.ret = "value") =>
        /\ last.engine.extent[2 * SliceAxis(last.op) - 1] =
               Min(last.arg, last.before[SliceAxis(last.op)] - 1)
        /\ last.engine.extent[2 * SliceAxis(last.op)] =
               Min(last.arg, last.before[SliceAxis(last.op)] - 1)
        /\ \A i \in 1..3 :
               /\ 0 <= last.engine.extent[2 * i - 1]
               /\ last.engine.extent[2 * i] <= last.before[i] - 1

\* C18: on a Volume built from a recognised input, after the constructor and
\* after every call of spacing, threshold, crop, permuteAxes, resize,
\* normalize, scaleVoxels, mirror, append and mapper, imagedata() is the
\* input of the current mapper, mapper() is the mapper installed on the
\* engine's prop, and inputdata() is that same image; mapper(newMapper)
\* leaves newMapper current, with the input the previous mapper had.
C18_PipelineLinked ==
    vol.built = "ok" =>
        /\ imagedata(vol).val = mapper(vol, None).val.input
        /\ mapper(vol, None).val.id = vol.engineMapper
        /\ inputdata(vol).val = imagedata(vol).val
        /\ (last.op = "mapper" /\ last.arg # None) =>
              /\ last.val = mapper(vol, None).val
              /\ mapper(vol, None).val.id = last.arg.id
              /\ mapper(vol, None).val.kind = last.arg.kind
              /\ mapper(vol, None).val.input = last.before

\* a new mapper installed after the image data was replaced
C18_Witness ==
    /\ vol.built = "ok"
    /\ last.op = "mapper" /\ last.arg # None
    /\ mapper(vol, None).val.id # 0
    /\ imagedata(vol).val.id # 0
    /\ inputdata(vol).val = imagedata(vol).val

===========================================================================
